---- MODULE Spec2Model ----
(***************************************************************************)
(* EventProcessor<E> of src/main.cpp: a fixed-capacity multi-producer /    *)
(* single-consumer ring buffer with three sequence counters and one commit *)
(* marker per slot.                                                        *)
(*                                                                         *)
(* Every atomic load, store and compare-and-swap of the source is one      *)
(* step of the thread that executes it, and threads interleave freely      *)
(* between steps.  The plain (non-atomic) slot accesses through ElementAt  *)
(* and in Consume are one step each as well.  Thread 0 is the consumer,    *)
(* the other threads are producers.  A local variable that is dead (its    *)
(* frame is left, or the loop is about to load it again) is set to 0.      *)
(*                                                                         *)
(* The values the atomic operations read are those of this interleaving.   *)
(* What their memory orders add is kept beside the values: hb holds, for   *)
(* every thread, the slot writes that happen before its next operation; a  *)
(* release store publishes the hb of its thread, an acquire load that      *)
(* reads it adds what was published to the hb of the reader, and relaxed   *)
(* operations publish and learn nothing.  reserve_sn_ and consume_sn_ are  *)
(* written by acquire exchanges only, so they never publish anything.  A   *)
(* sequence number that has been consumed is dropped from these sets.      *)
(***************************************************************************)
EXTENDS Integers, Sequences, FiniteSets, TLC

\* ------------------------------------------------------------------ bounds
\* producer threads of Spec (main starts 16); WideSpec runs one more
NumProducers == 2
\* the constructor argument queue_capacity_exp ranges over 0..MaxExp
MaxExp == 1
\* the count argument of Reserve ranges over 0..MaxCount
MaxCount == 2
\* slots the calls of one run of Spec may ask for (main stops near 1048576)
MaxSN == 2
\* items each producer pushes under the driver of FairSpec
ItemsPerProducer == 1

Consumer == 0
Producers == 1..NumProducers
AllProducers == 1..(NumProducers + 1)
Threads == {Consumer} \cup AllProducers

VARIABLES
  queue_capacity_exp_,  \* size_t queue_capacity_exp_
  queue_,               \* std::vector<PaddedType<E>> queue_, by index
  commits_,             \* std::vector<PaddedAtomicInteger> commits_, by index
  reserve_sn_,          \* std::atomic<Integer> reserve_sn_
  commit_sn_,           \* std::atomic<Integer> commit_sn_
  consume_sn_,          \* std::atomic<Integer> consume_sn_
  pc,                   \* per thread: the source line it executes next
  count,                \* per producer: the count argument of Reserve / Commit
  sequence_number,      \* per producer: the caller's sequence_number variable
  reserve_sn,           \* per thread: local reserve_sn of Reserve / Commit
  consume_sn,           \* per thread: local consume_sn of Reserve / Consume
  commit_sn,            \* per thread: local commit_sn of Commit / Consume
  i,                    \* per producer: loop index ri of main / i of Commit
  ret,                  \* per thread: what its Reserve / Consume returned
  event,                \* the consumer's event variable
  \* ---- the callers' bookkeeping and history variables
  budget,               \* slots the callers of Spec may still ask for
  todo,                 \* per producer: items the driver of FairSpec still pushes
  marked,               \* sequence numbers whose marker store (line 87) has run
  written,              \* sequence numbers whose slot has been written
  consumed,             \* the events returned by successful Consume calls
  seen_consume,         \* per producer: consume_sn_ when line 64 last ran
  goal,                 \* the largest CommitTarget of the Commit calls so far
  event_in,             \* the consumer's event when it called Consume
  script,               \* calls of Scenario made so far, in its order; -1: others
  \* ---- the synchronisation the memory orders of the atomic operations give
  hb,                   \* per thread: the sequence numbers whose slot write
                        \* happens before the thread's next operation
  rel_commits_,         \* by index: what an acquire read of the marker would learn
  rel_commit_sn_        \* what an acquire read of commit_sn_ learns

vars == <<queue_capacity_exp_, queue_, commits_, reserve_sn_, commit_sn_,
          consume_sn_, pc, count, sequence_number, reserve_sn, consume_sn,
          commit_sn, i, ret, event, budget, todo, marked, written, consumed,
          seen_consume, goal, event_in, script, hb, rel_commits_,
          rel_commit_sn_>>

\* ----------------------------------------------------------- pure helpers
\* size_t is 64 bits wide; the checker's integers are 32 bits wide, so the
\* modulus of the unsigned conversion is scaled to 2^30.  Every value of the
\* model is below 2^10 in magnitude, so the scaling changes no comparison.
SizeTModulus == 2^30

\* conversion of a signed value to size_t
ToSizeT(x) == x % SizeTModulus

\* queue_capacity_{static_cast<size_t>(1 << queue_capacity_exp)}
Capacity(exp) == 2^exp

queue_capacity_ == Capacity(queue_capacity_exp_)

\* static_cast<size_t>(sn) & ((1 << queue_capacity_exp_) - 1)
Index(sn) == ToSizeT(sn) % Capacity(queue_capacity_exp_)

\* line 193: new Event(sequence_number + ri), known by its sn_
Event(sn) == sn
\* a value-initialised slot of queue_ (nullptr)
NullEvent == -1
\* line 162: the consumer's IEvent* event before Consume assigns it
Uninitialized == -2

\* line 57: count > queue_capacity_
TooLargeOffByOne(cnt) == cnt > queue_capacity_ + 1
TooLarge(cnt) == cnt > queue_capacity_

\* line 68: reserve_sn - consume_sn > queue_capacity_ - count, the left side
\* converted to size_t by the usual arithmetic conversions, the right side
\* computed in size_t
FullIgnoresCount(r, c, cnt) == ToSizeT(r - c) > ToSizeT(queue_capacity_)
FullOffByOne(r, c, cnt) == ToSizeT(r - c) > ToSizeT(queue_capacity_ - cnt) + 1
Full(r, c, cnt) == ToSizeT(r - c) > ToSizeT(queue_capacity_ - cnt)

\* line 110: commit_sn == consume_sn
EmptyNever(cm, cs) == FALSE
EmptyWhenBehind(cm, cs) == cm < cs
Empty(cm, cs) == cm = cs

\* lines 44-51: the markers after construction
InitialCommitsAllZero(exp) == [x \in 0..(Capacity(exp) - 1) |-> 0]
InitialCommits(exp) == [x \in 0..(Capacity(exp) - 1) |-> IF x = 0 THEN -1 ELSE 0]

\* line 93: commit_sn < reserve_sn
SweepUnbounded(cm, r) == TRUE
SweepStopsEarly(cm, r) == cm + 1 < r
SweepContinues(cm, r) == cm < r

\* line 95: the comparison of compare_exchange_strong
MarkerIsSet(cm) == commits_[Index(cm)] # -1
MarkerMatches(cm) == commits_[Index(cm)] = cm

\* line 71: reserve_sn + count
AdvanceByOne(r, cnt) == r + 1
Advance(r, cnt) == r + cnt

\* line 87: the value stored into the marker, i + sequence_number
MarkerOfIndex(sn) == Index(sn)
Marker(sn) == sn

\* line 95: the value the exchange leaves in the marker
SweptMarkerKept(cm) == cm
SweptMarker(cm) == -1

\* What a load learns from the release sequence it reads from: everything
\* that happened before the release store when the load is an acquire,
\* nothing when it is relaxed.
LoadSync(order, published) == IF order = "acquire" THEN published ELSE {}

\* What a store publishes: a release store, what happened before it in its
\* thread; a relaxed store, nothing.  A store starts a new release sequence.
StoreSync(order, known) == IF order = "release" THEN known ELSE {}

\* A read-modify-write continues the release sequence it reads from.
RmwSync(order, published, known) == published \cup StoreSync(order, known)

\* the memory orders of lines 87, 95, 97 and 107
MarkerStoreOrder == "release"
SweepCasOrder == "relaxed"
CommitStoreOrder == "release"
ConsumeLoadOrder == "acquire"

\* lines 206-211 show the caller of the interface: one call after the other.
\* Scenario is such a caller on a buffer of 4 slots: the calls it makes, as
\* <<operation, count, sequence_number>>.
Scenario ==
  << <<"Reserve", 1, 0>>, <<"Reserve", 2, 0>>, <<"Reserve", 2, 0>>,
     <<"Commit", 1, 0>>, <<"Commit", 2, 1>>,
     <<"Consume", 0, 0>>, <<"Consume", 0, 0>>, <<"Consume", 0, 0>>,
     <<"Consume", 0, 0>> >>

\* script after one more call: the next position when the call is the one
\* Scenario makes next, -1 otherwise
ScriptAfter(call) ==
  IF script >= 0 /\ script < Len(Scenario) /\ Scenario[script + 1] = call
    THEN script + 1
    ELSE -1

Min(a, b) == IF a < b THEN a ELSE b
Max(a, b) == IF a < b THEN b ELSE a

\* the pc values inside Commit, and the range a producer's call is about
InCommit(p) == pc[p] \in {"c87", "c89", "c90", "c95", "c97"}
\* the producer holds a range it has reserved and not yet committed
Holds(p) == pc[p] \in {"m193", "c87"}
\* the thread is inside Reserve, Commit or Consume
MidCall(t) ==
  pc[t] \in {"r64", "r65", "r71", "c87", "c89", "c90", "c95", "c97",
             "k107", "k108", "k114", "k116"}
\* no other thread is inside a call
Turn(t) == \A q \in Threads \ {t} : ~MidCall(q)
Range(p) == sequence_number[p]..(sequence_number[p] + count[p] - 1)

\* the first sequence number from s on that is not in m
RECURSIVE ContiguousEnd(_, _)
ContiguousEnd(s, m) == IF s \in m THEN ContiguousEnd(s + 1, m) ELSE s

\* the marked sequence numbers whose Commit call has returned
Completed == {s \in marked : \A q \in AllProducers : InCommit(q) => s \notin Range(q)}

\* What a Commit(cnt, sn) that is about to be called has to sweep when it
\* holds the blocking range (commit_sn_ waits at its first sequence number):
\* its own range and the sequence numbers after it that completed Commit
\* calls have marked.  0 for any other call.
CommitTarget(sn, cnt) ==
  IF cnt > 0 /\ commit_sn_ = sn
    THEN ContiguousEnd(sn + cnt, Completed)
    ELSE 0

\* ------------------------------------------------------------------- Init
\* lines 41-52, and the threads before their first call
InitWith(exps, b, t, s) ==
  /\ queue_capacity_exp_ \in exps
  /\ queue_ = [x \in 0..(Capacity(queue_capacity_exp_) - 1) |-> NullEvent]
  /\ commits_ = InitialCommits(queue_capacity_exp_)
  /\ reserve_sn_ = 0
  /\ commit_sn_ = 0
  /\ consume_sn_ = 0
  /\ pc = [t2 \in Threads |-> "idle"]
  /\ count = [p \in AllProducers |-> 0]
  /\ sequence_number = [p \in AllProducers |-> 0]
  /\ reserve_sn = [t2 \in Threads |-> 0]
  /\ consume_sn = [t2 \in Threads |-> 0]
  /\ commit_sn = [t2 \in Threads |-> 0]
  /\ i = [p \in AllProducers |-> 0]
  /\ ret = [t2 \in Threads |-> "none"]
  /\ event = Uninitialized
  /\ budget = b
  /\ todo = [p \in AllProducers |-> t]
  /\ marked = {}
  /\ written = {}
  /\ consumed = <<>>
  /\ seen_consume = [p \in AllProducers |-> 0]
  /\ goal = 0
  /\ event_in = Uninitialized
  /\ script = s
  /\ hb = [t2 \in Threads |-> {}]
  /\ rel_commits_ = [x \in 0..(Capacity(queue_capacity_exp_) - 1) |-> {}]
  /\ rel_commit_sn_ = {}

Init == InitWith(0..MaxExp, MaxSN, 0, -1)

\* ---------------------------------------------------------------- Reserve
\* what a call takes from the budget of the run
Cost(cnt) == IF cnt = 0 THEN 1 ELSE cnt

\* lines 54-58: the call and the check against the queue size
EnterReserve(p, cnt) ==
  /\ count' = [count EXCEPT ![p] = cnt]
  /\ IF TooLarge(cnt)
       THEN /\ ret' = [ret EXCEPT ![p] = "false"]
            /\ pc' = [pc EXCEPT ![p] = "m188"]
       ELSE /\ ret' = [ret EXCEPT ![p] = "none"]
            /\ pc' = [pc EXCEPT ![p] = "r64"]
  /\ UNCHANGED <<queue_capacity_exp_, queue_, commits_, reserve_sn_,
                 commit_sn_, consume_sn_, sequence_number, reserve_sn,
                 consume_sn, commit_sn, i, event, marked, written, consumed,
                 seen_consume, goal>>
  /\ UNCHANGED <<event_in, hb, rel_commits_, rel_commit_sn_>>

\* lines 206-207: a caller of the interface calls Reserve, with any count
CallReserve(p, cnt) ==
  /\ pc[p] = "idle"
  /\ Cost(cnt) <= budget
  /\ budget' = budget - Cost(cnt)
  /\ UNCHANGED todo
  /\ EnterReserve(p, cnt)
  /\ script' = ScriptAfter(<<"Reserve", cnt, 0>>)

\* lines 207-208: the caller of a refused Reserve gives up or starts over
Yield(p) ==
  /\ pc[p] = "m188"
  /\ pc' = [pc EXCEPT ![p] = "idle"]
  /\ budget' = budget + Cost(count[p])
  /\ count' = [count EXCEPT ![p] = 0]
  /\ ret' = [ret EXCEPT ![p] = "none"]
  /\ UNCHANGED <<queue_capacity_exp_, queue_, commits_, reserve_sn_,
                 commit_sn_, consume_sn_, sequence_number, reserve_sn,
                 consume_sn, commit_sn, i, event, todo, marked, written,
                 consumed, seen_consume, goal>>
  /\ UNCHANGED <<event_in, script, hb, rel_commits_, rel_commit_sn_>>

\* line 64
ReserveLoadReserve(p) ==
  /\ pc[p] = "r64"
  /\ reserve_sn' = [reserve_sn EXCEPT ![p] = reserve_sn_]
  /\ seen_consume' = [seen_consume EXCEPT ![p] = consume_sn_]
  /\ pc' = [pc EXCEPT ![p] = "r65"]
  /\ UNCHANGED <<queue_capacity_exp_, queue_, commits_, reserve_sn_,
                 commit_sn_, consume_sn_, count, sequence_number, consume_sn,
                 commit_sn, i, ret, event, budget, todo, marked, written,
                 consumed, goal>>
  /\ UNCHANGED <<event_in, script, hb, rel_commits_, rel_commit_sn_>>

\* lines 65-69
ReserveLoadConsume(p) ==
  /\ pc[p] = "r65"
  /\ IF Full(reserve_sn[p], consume_sn_, count[p])
       THEN /\ ret' = [ret EXCEPT ![p] = "false"]
            /\ pc' = [pc EXCEPT ![p] = "m188"]
            /\ reserve_sn' = [reserve_sn EXCEPT ![p] = 0]
            /\ seen_consume' = [seen_consume EXCEPT ![p] = 0]
            /\ UNCHANGED consume_sn
       ELSE /\ pc' = [pc EXCEPT ![p] = "r71"]
            /\ consume_sn' = [consume_sn EXCEPT ![p] = consume_sn_]
            /\ UNCHANGED <<ret, reserve_sn, seen_consume>>
  /\ UNCHANGED <<queue_capacity_exp_, queue_, commits_, reserve_sn_,
                 commit_sn_, consume_sn_, count, sequence_number, commit_sn, i,
                 event, budget, todo, marked, written, consumed, goal>>
  /\ UNCHANGED <<event_in, script, hb, rel_commits_, rel_commit_sn_>>

\* lines 71-75 (the exchange succeeds) and lines 71, 62 (it fails because
\* reserve_sn_ has moved).  After a success main goes on at line 190, or at
\* line 196 when there is nothing to write.
ReserveCas(p) ==
  /\ pc[p] = "r71"
  /\ IF reserve_sn_ = reserve_sn[p]
       THEN /\ reserve_sn_' = Advance(reserve_sn[p], count[p])
            /\ sequence_number' = [sequence_number EXCEPT ![p] = reserve_sn[p]]
            /\ ret' = [ret EXCEPT ![p] = "true"]
            /\ IF count[p] = 0
                 THEN /\ pc' = [pc EXCEPT ![p] = "c89"]
                      /\ goal' = Max(goal, CommitTarget(reserve_sn[p], 0))
                 ELSE /\ pc' = [pc EXCEPT ![p] = "m193"]
                      /\ UNCHANGED goal
       ELSE /\ pc' = [pc EXCEPT ![p] = "r64"]
            /\ UNCHANGED <<reserve_sn_, sequence_number, ret, goal>>
  /\ reserve_sn' = [reserve_sn EXCEPT ![p] = 0]
  /\ consume_sn' = [consume_sn EXCEPT ![p] = 0]
  /\ seen_consume' = [seen_consume EXCEPT ![p] = 0]
  /\ UNCHANGED <<queue_capacity_exp_, queue_, commits_, commit_sn_,
                 consume_sn_, count, commit_sn, i, event, budget, todo, marked,
                 written, consumed>>
  /\ script' = IF reserve_sn_ = reserve_sn[p] /\ count[p] = 0
                 THEN ScriptAfter(<<"Commit", 0, reserve_sn[p]>>)
                 ELSE script
  /\ UNCHANGED <<event_in, hb, rel_commits_, rel_commit_sn_>>

\* line 71: compare_exchange_weak may fail although the values are equal
ReserveCasSpurious(p) ==
  /\ pc[p] = "r71"
  /\ reserve_sn_ = reserve_sn[p]
  /\ pc' = [pc EXCEPT ![p] = "r64"]
  /\ reserve_sn' = [reserve_sn EXCEPT ![p] = 0]
  /\ consume_sn' = [consume_sn EXCEPT ![p] = 0]
  /\ seen_consume' = [seen_consume EXCEPT ![p] = 0]
  /\ UNCHANGED <<queue_capacity_exp_, queue_, commits_, reserve_sn_,
                 commit_sn_, consume_sn_, count, sequence_number, commit_sn, i,
                 ret, event, budget, todo, marked, written, consumed, goal>>
  /\ UNCHANGED <<event_in, script, hb, rel_commits_, rel_commit_sn_>>

\* ------------------------------------------------ ElementAt, as main uses it
\* lines 190-196 with 78-81: one slot of the reserved range is written;
\* after the last one Commit is called
WriteSlot(p) ==
  /\ pc[p] = "m193"
  /\ LET sn == sequence_number[p] + i[p] IN
       /\ queue_' = [queue_ EXCEPT ![Index(sn)] = Event(sn)]
       /\ written' = written \cup {sn}
  /\ IF i[p] + 1 < count[p]
       THEN /\ i' = [i EXCEPT ![p] = i[p] + 1]
            /\ UNCHANGED <<pc, goal>>
       ELSE /\ i' = [i EXCEPT ![p] = 0]
            /\ pc' = [pc EXCEPT ![p] = "c87"]
            /\ goal' = Max(goal, CommitTarget(sequence_number[p], count[p]))
  /\ UNCHANGED <<queue_capacity_exp_, commits_, reserve_sn_, commit_sn_,
                 consume_sn_, count, sequence_number, reserve_sn, consume_sn,
                 commit_sn, ret, event, budget, todo, marked, consumed,
                 seen_consume>>
  /\ hb' = [hb EXCEPT ![p] = hb[p] \cup {sequence_number[p] + i[p]}]
  /\ script' = IF i[p] + 1 < count[p]
                 THEN script
                 ELSE ScriptAfter(<<"Commit", count[p], sequence_number[p]>>)
  /\ UNCHANGED <<event_in, rel_commits_, rel_commit_sn_>>

\* ----------------------------------------------------------------- Commit
\* the thread returns from Commit: the round of lines 206-211 is over
Return(p) ==
  /\ pc' = [pc EXCEPT ![p] = "idle"]
  /\ reserve_sn' = [reserve_sn EXCEPT ![p] = 0]
  /\ commit_sn' = [commit_sn EXCEPT ![p] = 0]
  /\ count' = [count EXCEPT ![p] = 0]
  /\ ret' = [ret EXCEPT ![p] = "none"]
  /\ sequence_number' = [sequence_number EXCEPT ![p] = 0]

\* lines 86-87: one marker store
CommitMark(p) ==
  /\ pc[p] = "c87"
  /\ LET sn == i[p] + sequence_number[p] IN
       /\ commits_' = [commits_ EXCEPT ![Index(sn)] = Marker(sn)]
       /\ marked' = marked \cup {sn}
  /\ IF i[p] + 1 < count[p]
       THEN /\ i' = [i EXCEPT ![p] = i[p] + 1]
            /\ UNCHANGED pc
       ELSE /\ i' = [i EXCEPT ![p] = 0]
            /\ pc' = [pc EXCEPT ![p] = "c89"]
  /\ UNCHANGED <<queue_capacity_exp_, queue_, reserve_sn_, commit_sn_,
                 consume_sn_, count, sequence_number, reserve_sn, consume_sn,
                 commit_sn, ret, event, budget, todo, written, consumed,
                 seen_consume, goal>>
  /\ rel_commits_' = [rel_commits_ EXCEPT ![Index(i[p] + sequence_number[p])] =
                          StoreSync(MarkerStoreOrder, hb[p])]
  /\ UNCHANGED <<event_in, script, hb, rel_commit_sn_>>

\* line 89
CommitLoadReserve(p) ==
  /\ pc[p] = "c89"
  /\ reserve_sn' = [reserve_sn EXCEPT ![p] = reserve_sn_]
  /\ pc' = [pc EXCEPT ![p] = "c90"]
  /\ UNCHANGED <<queue_capacity_exp_, queue_, commits_, reserve_sn_,
                 commit_sn_, consume_sn_, count, sequence_number, consume_sn,
                 commit_sn, i, ret, event, budget, todo, marked, written,
                 consumed, seen_consume, goal>>
  /\ UNCHANGED <<event_in, script, hb, rel_commits_, rel_commit_sn_>>

\* lines 90 and 93
CommitLoadCommit(p) ==
  /\ pc[p] = "c90"
  /\ IF SweepContinues(commit_sn_, reserve_sn[p])
       THEN /\ commit_sn' = [commit_sn EXCEPT ![p] = commit_sn_]
            /\ pc' = [pc EXCEPT ![p] = "c95"]
            /\ UNCHANGED <<reserve_sn, count, ret, sequence_number>>
       ELSE Return(p)
  /\ UNCHANGED <<queue_capacity_exp_, queue_, commits_, reserve_sn_,
                 commit_sn_, consume_sn_, consume_sn, i, event, budget, todo,
                 marked, written, consumed, seen_consume, goal>>
  /\ UNCHANGED <<event_in, script, hb, rel_commits_, rel_commit_sn_>>

\* lines 95-96
CommitSweepCas(p) ==
  /\ pc[p] = "c95"
  /\ IF MarkerMatches(commit_sn[p])
       THEN /\ commits_' = [commits_ EXCEPT ![Index(commit_sn[p])] = SweptMarker(commit_sn[p])]
            /\ pc' = [pc EXCEPT ![p] = "c97"]
            /\ UNCHANGED <<reserve_sn, commit_sn, count, ret, sequence_number>>
       ELSE /\ Return(p)
            /\ UNCHANGED commits_
  /\ UNCHANGED <<queue_capacity_exp_, queue_, reserve_sn_, commit_sn_,
                 consume_sn_, consume_sn, i, event, budget, todo, marked,
                 written, consumed, seen_consume, goal>>
  /\ IF MarkerMatches(commit_sn[p])
       THEN /\ hb' = [hb EXCEPT ![p] = hb[p] \cup
                       LoadSync(SweepCasOrder, rel_commits_[Index(commit_sn[p])])]
            /\ rel_commits_' = [rel_commits_ EXCEPT ![Index(commit_sn[p])] =
                       RmwSync(SweepCasOrder, rel_commits_[Index(commit_sn[p])], hb[p])]
       ELSE UNCHANGED <<hb, rel_commits_>>
  /\ UNCHANGED <<event_in, script, rel_commit_sn_>>

\* lines 97 and 93
CommitSweepStore(p) ==
  /\ pc[p] = "c97"
  /\ commit_sn_' = commit_sn[p] + 1
  /\ IF SweepContinues(commit_sn[p] + 1, reserve_sn[p])
       THEN /\ commit_sn' = [commit_sn EXCEPT ![p] = commit_sn[p] + 1]
            /\ pc' = [pc EXCEPT ![p] = "c95"]
            /\ UNCHANGED <<reserve_sn, count, ret, sequence_number>>
       ELSE Return(p)
  /\ UNCHANGED <<queue_capacity_exp_, queue_, commits_, reserve_sn_,
                 consume_sn_, consume_sn, i, event, budget, todo, marked,
                 written, consumed, seen_consume, goal>>
  /\ rel_commit_sn_' = StoreSync(CommitStoreOrder, hb[p])
  /\ UNCHANGED <<event_in, script, hb, rel_commits_>>

\* ---------------------------------------------------------------- Consume
\* lines 101-107: the call, or the next round of the loop, and the load
ConsumeLoadCommit ==
  /\ pc[Consumer] \in {"idle", "k107"}
  /\ commit_sn' = [commit_sn EXCEPT ![Consumer] = commit_sn_]
  /\ ret' = [ret EXCEPT ![Consumer] = "none"]
  /\ pc' = [pc EXCEPT ![Consumer] = "k108"]
  /\ UNCHANGED <<queue_capacity_exp_, queue_, commits_, reserve_sn_,
                 commit_sn_, consume_sn_, count, sequence_number, reserve_sn,
                 consume_sn, i, event, budget, todo, marked, written, consumed,
                 seen_consume, goal>>
  /\ hb' = [hb EXCEPT ![Consumer] = hb[Consumer] \cup
                 LoadSync(ConsumeLoadOrder, rel_commit_sn_)]
  /\ event_in' = IF pc[Consumer] = "idle" THEN event ELSE event_in
  /\ script' = IF pc[Consumer] = "idle"
                 THEN ScriptAfter(<<"Consume", 0, 0>>)
                 ELSE script
  /\ UNCHANGED <<rel_commits_, rel_commit_sn_>>

\* lines 108-114, with the copy of line 114 made before the test of line 110
ConsumeLoadConsumeCopyFirst ==
  /\ pc[Consumer] = "k108"
  /\ event' = queue_[Index(consume_sn_)]
  /\ IF Empty(commit_sn[Consumer], consume_sn_)
       THEN /\ ret' = [ret EXCEPT ![Consumer] = "false"]
            /\ pc' = [pc EXCEPT ![Consumer] = "idle"]
            /\ commit_sn' = [commit_sn EXCEPT ![Consumer] = 0]
            /\ UNCHANGED consume_sn
       ELSE /\ consume_sn' = [consume_sn EXCEPT ![Consumer] = consume_sn_]
            /\ pc' = [pc EXCEPT ![Consumer] = "k114"]
            /\ UNCHANGED <<ret, commit_sn>>
  /\ UNCHANGED <<queue_capacity_exp_, queue_, commits_, reserve_sn_,
                 commit_sn_, consume_sn_, count, sequence_number, reserve_sn,
                 i, budget, todo, marked, written, consumed,
                 seen_consume, goal>>
  /\ UNCHANGED <<event_in, script, hb, rel_commits_, rel_commit_sn_>>

\* lines 108-111
ConsumeLoadConsume ==
  /\ pc[Consumer] = "k108"
  /\ IF Empty(commit_sn[Consumer], consume_sn_)
       THEN /\ ret' = [ret EXCEPT ![Consumer] = "false"]
            /\ pc' = [pc EXCEPT ![Consumer] = "idle"]
            /\ commit_sn' = [commit_sn EXCEPT ![Consumer] = 0]
            /\ UNCHANGED consume_sn
       ELSE /\ consume_sn' = [consume_sn EXCEPT ![Consumer] = consume_sn_]
            /\ pc' = [pc EXCEPT ![Consumer] = "k114"]
            /\ UNCHANGED <<ret, commit_sn>>
  /\ UNCHANGED <<queue_capacity_exp_, queue_, commits_, reserve_sn_,
                 commit_sn_, consume_sn_, count, sequence_number, reserve_sn,
                 i, event, budget, todo, marked, written, consumed,
                 seen_consume, goal>>
  /\ UNCHANGED <<event_in, script, hb, rel_commits_, rel_commit_sn_>>

\* line 114, with the slot moved out instead of copied
ConsumeTakeSlot ==
  /\ pc[Consumer] = "k114"
  /\ event' = queue_[Index(consume_sn[Consumer])]
  /\ queue_' = [queue_ EXCEPT ![Index(consume_sn[Consumer])] = NullEvent]
  /\ pc' = [pc EXCEPT ![Consumer] = "k116"]
  /\ UNCHANGED <<queue_capacity_exp_, commits_, reserve_sn_,
                 commit_sn_, consume_sn_, count, sequence_number, reserve_sn,
                 consume_sn, commit_sn, i, ret, budget, todo, marked, written,
                 consumed, seen_consume, goal>>
  /\ UNCHANGED <<event_in, script, hb, rel_commits_, rel_commit_sn_>>

\* line 114
ConsumeReadSlot ==
  /\ pc[Consumer] = "k114"
  /\ event' = queue_[Index(consume_sn[Consumer])]
  /\ pc' = [pc EXCEPT ![Consumer] = "k116"]
  /\ UNCHANGED <<queue_capacity_exp_, queue_, commits_, reserve_sn_,
                 commit_sn_, consume_sn_, count, sequence_number, reserve_sn,
                 consume_sn, commit_sn, i, ret, budget, todo, marked, written,
                 consumed, seen_consume, goal>>
  /\ UNCHANGED <<event_in, script, hb, rel_commits_, rel_commit_sn_>>

\* lines 116-118 (the exchange succeeds) and 116, 105 (consume_sn_ has moved)
ConsumeCas ==
  /\ pc[Consumer] = "k116"
  /\ IF consume_sn_ = consume_sn[Consumer]
       THEN /\ consume_sn_' = consume_sn[Consumer] + 1
            /\ consumed' = Append(consumed, event)
            /\ ret' = [ret EXCEPT ![Consumer] = "true"]
            /\ pc' = [pc EXCEPT ![Consumer] = "idle"]
       ELSE /\ pc' = [pc EXCEPT ![Consumer] = "k107"]
            /\ UNCHANGED <<consume_sn_, consumed, ret>>
  /\ commit_sn' = [commit_sn EXCEPT ![Consumer] = 0]
  /\ consume_sn' = [consume_sn EXCEPT ![Consumer] = 0]
  /\ UNCHANGED <<queue_capacity_exp_, queue_, commits_, reserve_sn_,
                 commit_sn_, count, sequence_number, reserve_sn, i, event,
                 budget, todo, marked, written, seen_consume, goal>>
  /\ IF consume_sn_ = consume_sn[Consumer]
       THEN /\ event_in' = event
            /\ hb' = [t2 \in Threads |-> hb[t2] \ {consume_sn[Consumer]}]
            /\ rel_commits_' = [x \in DOMAIN rel_commits_ |->
                                  rel_commits_[x] \ {consume_sn[Consumer]}]
            /\ rel_commit_sn_' = rel_commit_sn_ \ {consume_sn[Consumer]}
       ELSE UNCHANGED <<event_in, hb, rel_commits_, rel_commit_sn_>>
  /\ UNCHANGED <<script>>

\* line 116: compare_exchange_weak may fail although the values are equal
ConsumeCasSpurious ==
  /\ pc[Consumer] = "k116"
  /\ consume_sn_ = consume_sn[Consumer]
  /\ pc' = [pc EXCEPT ![Consumer] = "k107"]
  /\ commit_sn' = [commit_sn EXCEPT ![Consumer] = 0]
  /\ consume_sn' = [consume_sn EXCEPT ![Consumer] = 0]
  /\ UNCHANGED <<queue_capacity_exp_, queue_, commits_, reserve_sn_,
                 commit_sn_, consume_sn_, count, sequence_number, reserve_sn,
                 i, ret, event, budget, todo, marked, written, consumed,
                 seen_consume, goal>>
  /\ UNCHANGED <<event_in, script, hb, rel_commits_, rel_commit_sn_>>

\* --------------------------------------------------------- specifications
\* the steps of the queue's own code for the producers in ps
QueueStep(ps) ==
  \/ \E p \in ps : ReserveLoadReserve(p)
  \/ \E p \in ps : ReserveLoadConsume(p)
  \/ \E p \in ps : ReserveCas(p)
  \/ \E p \in ps : WriteSlot(p)
  \/ \E p \in ps : CommitMark(p)
  \/ \E p \in ps : CommitLoadReserve(p)
  \/ \E p \in ps : CommitLoadCommit(p)
  \/ \E p \in ps : CommitSweepCas(p)
  \/ \E p \in ps : CommitSweepStore(p)
  \/ ConsumeLoadCommit
  \/ ConsumeLoadConsume
  \/ ConsumeReadSlot
  \/ ConsumeCas

\* the callers of Spec, and the failures compare_exchange_weak is allowed
CallerStep(ps) ==
  \/ \E p \in ps, cnt \in 0..MaxCount : CallReserve(p, cnt)
  \/ \E p \in ps : Yield(p)
  \/ \E p \in ps : ReserveCasSpurious(p)
  \/ ConsumeCasSpurious

\* Spec: NumProducers producers and the consumer call the interface in any
\* order, with any count in 0..MaxCount, asking for MaxSN slots at most.
Next == QueueStep(Producers) \/ CallerStep(Producers)

Spec == Init /\ [][Next]_vars

\* WideSpec: Spec with one more producer and one more slot to ask for
WideNext == QueueStep(AllProducers) \/ CallerStep(AllProducers)

WideSpec == InitWith(0..MaxExp, MaxSN + 1, 0, -1) /\ [][WideNext]_vars

\* WrapSpec: Spec on the smallest buffer, with slots enough for more than
\* three laps
WrapSpec == InitWith({0}, MaxSN + 2, 0, -1) /\ [][Next]_vars

\* lines 183-188: the driver of FairSpec starts a round with a count of its
\* choice among the items it still has to push
DriverReserve(p) ==
  /\ pc[p] = "idle"
  /\ todo[p] > 0
  /\ \E cnt \in 1..Min(todo[p], queue_capacity_) :
       /\ todo' = [todo EXCEPT ![p] = todo[p] - cnt]
       /\ EnterReserve(p, cnt)
  /\ UNCHANGED budget
  /\ UNCHANGED script

\* lines 187-188: a refused Reserve is called again with the same count
DriverRetry(p) ==
  /\ pc[p] = "m188"
  /\ EnterReserve(p, count[p])
  /\ UNCHANGED <<budget, todo>>
  /\ UNCHANGED script

\* FairSpec: each of NumProducers producers pushes ItemsPerProducer items
\* and stops, the consumer keeps calling Consume, every thread keeps running,
\* and compare_exchange_weak fails only when the values differ.
ProducerStep(p) ==
  \/ DriverReserve(p)
  \/ DriverRetry(p)
  \/ ReserveLoadReserve(p)
  \/ ReserveLoadConsume(p)
  \/ ReserveCas(p)
  \/ WriteSlot(p)
  \/ CommitMark(p)
  \/ CommitLoadReserve(p)
  \/ CommitLoadCommit(p)
  \/ CommitSweepCas(p)
  \/ CommitSweepStore(p)

ConsumerStep ==
  \/ ConsumeLoadCommit
  \/ ConsumeLoadConsume
  \/ ConsumeReadSlot
  \/ ConsumeCas

FairNext == (\E p \in Producers : ProducerStep(p)) \/ ConsumerStep

FairSpec ==
  /\ InitWith(0..MaxExp, 0, ItemsPerProducer, -1)
  /\ [][FairNext]_vars
  /\ \A p \in Producers : WF_vars(ProducerStep(p))
  /\ WF_vars(ConsumerStep)

\* SequentialSpec: the threads make the calls of Scenario on a fresh buffer
\* of 4 slots, one call after the other: a thread takes a step only while no
\* other thread is inside a call, and it starts a call only when Scenario
\* makes this call next.  Which thread makes a call, when it writes its
\* slots and when compare_exchange_weak fails are left open.
SequentialNext ==
  \/ \E p \in AllProducers, cnt \in 0..MaxCount : Turn(p) /\ CallReserve(p, cnt) /\ script' # -1
  \/ \E p \in AllProducers : Turn(p) /\ Yield(p)
  \/ \E p \in AllProducers : Turn(p) /\ ReserveLoadReserve(p)
  \/ \E p \in AllProducers : Turn(p) /\ ReserveLoadConsume(p)
  \/ \E p \in AllProducers : Turn(p) /\ ReserveCas(p) /\ script' # -1
  \/ \E p \in AllProducers : Turn(p) /\ ReserveCasSpurious(p)
  \/ \E p \in AllProducers : Turn(p) /\ WriteSlot(p) /\ script' # -1
  \/ \E p \in AllProducers : Turn(p) /\ CommitMark(p)
  \/ \E p \in AllProducers : Turn(p) /\ CommitLoadReserve(p)
  \/ \E p \in AllProducers : Turn(p) /\ CommitLoadCommit(p)
  \/ \E p \in AllProducers : Turn(p) /\ CommitSweepCas(p)
  \/ \E p \in AllProducers : Turn(p) /\ CommitSweepStore(p)
  \/ Turn(Consumer) /\ ConsumeLoadCommit /\ script' # -1
  \/ Turn(Consumer) /\ ConsumeLoadConsume
  \/ Turn(Consumer) /\ ConsumeReadSlot
  \/ Turn(Consumer) /\ ConsumeCas
  \/ Turn(Consumer) /\ ConsumeCasSpurious

SequentialSpec == InitWith({2}, MaxSN + 3, 0, 0) /\ [][SequentialNext]_vars

\* ------------------------------------------------------------- properties
\* C1: in every reachable state reserve_sn_ - consume_sn_ is at most the
\* capacity, although Reserve decides on two values loaded separately.
C1_CapacityInvariant == reserve_sn_ - consume_sn_ <= queue_capacity_

\* the buffer is full while a producer is about to try its exchange with a
\* reserve_sn that another producer has overtaken since line 64
C1_Witness ==
  /\ reserve_sn_ - consume_sn_ = queue_capacity_
  /\ \E p \in Producers : pc[p] = "r71" /\ reserve_sn[p] < reserve_sn_

\* C2: in every reachable state consume_sn_ <= commit_sn_ <= reserve_sn_.
C2_CounterOrdering == consume_sn_ <= commit_sn_ /\ commit_sn_ <= reserve_sn_

\* the three counters differ while the consumer is inside Consume
C2_Witness ==
  /\ consume_sn_ < commit_sn_
  /\ commit_sn_ < reserve_sn_
  /\ pc[Consumer] = "k116"

\* C3: every sequence number below commit_sn_ has been written and marked by
\* the producer that reserved it, and the slot of every sequence number in
\* consume_sn_..commit_sn_-1 still holds the event written for it.
C3_NoHole ==
  /\ \A s \in 0..(commit_sn_ - 1) : s \in written /\ s \in marked
  /\ \A s \in consume_sn_..(commit_sn_ - 1) : queue_[Index(s)] = Event(s)

\* on a fresh buffer the Commit of sequence number 1 has returned while
\* sequence number 0 is reserved and not yet marked: commit_sn_ is still 0
C3_Witness ==
  /\ 1 \in Completed
  /\ 0 \notin marked
  /\ reserve_sn_ >= 2
  /\ commit_sn_ = 0
  /\ \A p \in Producers : ~InCommit(p)

\* C4: the k-th successful Consume returns the event written for sequence
\* number k-1: nothing is skipped, repeated or reordered.
C4_Fifo ==
  /\ Len(consumed) = consume_sn_
  /\ \A k \in 1..Len(consumed) : consumed[k] = Event(k - 1)

\* two events have been consumed
C4_Witness == Len(consumed) = 2 /\ consumed[2] = Event(1)

\* the stream the consumer has to see under FairSpec
ExpectedStream == [k \in 1..(NumProducers * ItemsPerProducer) |-> Event(k - 1)]

\* C5: under FairSpec the consumer eventually has consumed every pushed
\* item exactly once, in sequence-number order.
C5_NoDataLoss == <>(consumed = ExpectedStream)

\* C6: commit_sn_ never passes the lowest sequence number that is not
\* marked; and once the Commit of a blocking range has returned, and every
\* other Commit call with it, commit_sn_ has been swept over that range and
\* over the sequence numbers after it that had been marked by completed
\* Commit calls when it was called.
C6_OutOfOrderCommitProgress ==
  /\ commit_sn_ <= ContiguousEnd(0, marked)
  /\ (\A p \in AllProducers : ~InCommit(p)) => commit_sn_ >= goal

\* C7: a Reserve(count) with 1 <= count <= capacity returns false at line 69
\* only if reserve_sn_ + count - consume_sn_ exceeded the capacity when it
\* loaded reserve_sn_ at line 64.
C7_NoSpuriousRefusal ==
  [][\A p \in Producers :
       (pc[p] = "r65" /\ pc'[p] = "m188" /\ count[p] >= 1)
         => reserve_sn[p] + count[p] - seen_consume[p] > queue_capacity_]_vars

\* C8: a Reserve with count > capacity is refused at once, whatever the
\* state of the buffer; and a Reserve that gets past line 69 has loaded
\* values with reserve_sn + count - consume_sn <= capacity.
C8_RefusesOversized ==
  /\ \A p \in Producers :
       count[p] > queue_capacity_ => pc[p] = "m188" /\ ret[p] = "false"
  /\ \A p \in Producers :
       pc[p] = "r71" => reserve_sn[p] + count[p] - consume_sn[p] <= queue_capacity_

\* an oversized request has been refused on an empty buffer
C8_Witness ==
  /\ reserve_sn_ = 0
  /\ \E p \in Producers :
       pc[p] = "m188" /\ ret[p] = "false" /\ count[p] > queue_capacity_

\* C9: no Reserve with a count of zero returns true.
C9_ZeroCountRefused ==
  \A p \in Producers : count[p] = 0 => ret[p] # "true"

\* C10: the slot of s is written only after s - capacity has been consumed;
\* while the consumer is between its load of consume_sn_ = s and its
\* exchange, the slot of s + capacity is not written, and the copy it holds
\* at line 116 is the event of s.
C10_WraparoundSafety ==
  /\ \A s \in written : s - queue_capacity_ < consume_sn_
  /\ pc[Consumer] \in {"k114", "k116"}
       => (consume_sn[Consumer] + queue_capacity_) \notin written
  /\ pc[Consumer] = "k116" => event = Event(consume_sn[Consumer])

\* more than three laps have gone through the buffer
C10_Witness ==
  /\ consume_sn_ > 3 * queue_capacity_
  /\ Len(consumed) = consume_sn_

\* C11: every successful Reserve(count) moves reserve_sn_ by exactly count
\* and returns the value before the move, and nothing else moves reserve_sn_
\* (so the granted ranges follow one another without gap or overlap); the
\* ranges two producers hold at the same time are disjoint, lie below
\* reserve_sn_ and share no slot index.
C11_DisjointReservations ==
  /\ [](\A p \in Producers : Holds(p) =>
          /\ Range(p) \subseteq 0..(reserve_sn_ - 1)
          /\ \A q \in Producers \ {p} : Holds(q) =>
               /\ Range(p) \cap Range(q) = {}
               /\ \A s1 \in Range(p), s2 \in Range(q) : Index(s1) # Index(s2))
  /\ [][/\ \A p \in Producers : (pc[p] = "r71" /\ ret'[p] = "true") =>
              /\ reserve_sn_' = reserve_sn_ + count[p]
              /\ sequence_number'[p] = reserve_sn_
        /\ reserve_sn_' # reserve_sn_ =>
              \E p \in Producers : pc[p] = "r71" /\ ret'[p] = "true"]_vars

\* two producers hold one slot each of a buffer of two slots
C11_Witness ==
  /\ queue_capacity_ = 2
  /\ \E p, q \in Producers :
       /\ Holds(p) /\ Holds(q)
       /\ Range(p) = {0} /\ Range(q) = {1}

\* C12: no step of a Reserve call other than its successful exchange, and
\* so no Reserve call that returns false, changes a counter, a marker, a
\* slot or the caller's sequence_number; no step of a Consume call other than
\* its successful exchange changes a counter, a marker or a slot, and when
\* Consume has returned false the caller's event is what it was at the call.
C12_RefusalsHaveNoEffect ==
  /\ [](ret[Consumer] = "false" => event = event_in)
  /\ [][/\ \A p \in Producers :
              (/\ pc[p] \in {"idle", "r64", "r65", "r71"}
               /\ pc'[p] # pc[p]
               /\ ret'[p] # "true")
                => /\ UNCHANGED <<reserve_sn_, commit_sn_, consume_sn_,
                                  commits_, queue_>>
                   /\ sequence_number'[p] = sequence_number[p]
        /\ (pc'[Consumer] # pc[Consumer] /\ ret'[Consumer] # "true")
              => UNCHANGED <<reserve_sn_, commit_sn_, consume_sn_, commits_,
                             queue_>>
        /\ (ret'[Consumer] = "false" /\ ret[Consumer] # "false")
              => event' = event]_vars

\* a Reserve(1) has been refused on a full buffer of one slot, and later a
\* Consume has returned false to a caller that holds the event of an
\* earlier call
C12_Witness ==
  /\ ret[Consumer] = "false"
  /\ event = Event(0)
  /\ \E p \in Producers : pc[p] = "m188" /\ ret[p] = "false" /\ count[p] = 1

\* no thread is inside a call
Quiet == \A t \in Threads : ~MidCall(t)

\* C13: on a fresh buffer of 4 slots the calls of Scenario, made one after
\* the other, end as follows: Reserve(1) is granted sequence number 0;
\* Reserve(2) is granted 1; the next Reserve(2) is never granted (reserve_sn_
\* stays 3); Commit(1, 0) leaves commit_sn_ at 1; Commit(2, 1) leaves it at
\* 3; three Consume calls return the events of 0, 1, 2 in this order and the
\* fourth returns false.
C13_SequentialScenario ==
  /\ script = 1 =>
       /\ \A p \in AllProducers : pc[p] # "m188"
       /\ Quiet => \E p \in AllProducers :
                     /\ pc[p] = "m193" /\ ret[p] = "true"
                     /\ count[p] = 1 /\ sequence_number[p] = 0
       /\ Quiet => reserve_sn_ = 1
  /\ script = 2 =>
       /\ \A p \in AllProducers : pc[p] # "m188"
       /\ Quiet => \E p \in AllProducers :
                     /\ pc[p] = "m193" /\ ret[p] = "true"
                     /\ count[p] = 2 /\ sequence_number[p] = 1
       /\ Quiet => reserve_sn_ = 3
  /\ script = 3 =>
       /\ reserve_sn_ = 3
       /\ \A p \in AllProducers : pc[p] # "r71"
       /\ Cardinality({p \in AllProducers : ret[p] = "true"}) = 2
  /\ script = 4 => commit_sn_ <= 1 /\ (Quiet => commit_sn_ = 1)
  /\ script = 5 => commit_sn_ <= 3 /\ (Quiet => commit_sn_ = 3)
  /\ (script \in 6..8 /\ Quiet) =>
       /\ ret[Consumer] = "true"
       /\ event = Event(script - 6)
       /\ consumed = [k \in 1..(script - 5) |-> Event(k - 1)]
  /\ (script = 9 /\ Quiet) =>
       /\ ret[Consumer] = "false"
       /\ consumed = <<Event(0), Event(1), Event(2)>>
       /\ reserve_sn_ = 3 /\ commit_sn_ = 3 /\ consume_sn_ = 3

\* the nine calls of Scenario have been made and the last one has returned
C13_Witness == script = Len(Scenario) /\ Quiet /\ queue_capacity_ = 4

\* C14: in every state where no Commit call is in progress, commit_sn_ is
\* the smallest sequence number that has not been committed (marked), so no
\* marked sequence number contiguous with commit_sn_ stays unswept.
C14_NothingStranded ==
  (\A p \in AllProducers : ~InCommit(p)) => commit_sn_ = ContiguousEnd(0, marked)

\* C15: no step lowers reserve_sn_, commit_sn_ or consume_sn_; commit_sn_
\* moves by one at a time, and every store of line 97 writes the value
\* commit_sn_ has at that moment plus one.
C15_CommitSnStepsByOne ==
  [][/\ commit_sn_' \in {commit_sn_, commit_sn_ + 1}
     /\ reserve_sn_' >= reserve_sn_
     /\ consume_sn_' >= consume_sn_
     /\ \A p \in Producers :
          (pc[p] = "c97" /\ pc'[p] # "c97") => commit_sn_' = commit_sn_ + 1]_vars

\* two producers sweep at the same sequence number: one has won the exchange
\* on its marker and is about to store, the other is about to try it
C15_Witness ==
  \E p, q \in Producers :
    /\ p # q
    /\ pc[p] = "c97" /\ pc[q] = "c95"
    /\ commit_sn[p] = commit_sn[q]

\* the state of sequence number s: 0 Unreserved, 1 Reserved, 2 Committed,
\* 3 Consumed
SnState(s) ==
  IF s >= reserve_sn_ THEN 0
  ELSE IF s >= commit_sn_ THEN 1
  ELSE IF s >= consume_sn_ THEN 2
  ELSE 3

\* C16: in every step every sequence number keeps its state or moves to the
\* next one; it becomes Reserved only by the successful exchange of a
\* Reserve, Committed only by the store of line 97 of a Commit, and Consumed
\* only by the successful exchange of Consume.
C16_SequenceNumberStateMachine ==
  [][\A s \in 0..reserve_sn_' :
       /\ SnState(s)' \in {SnState(s), SnState(s) + 1}
       /\ (SnState(s) = 0 /\ SnState(s)' = 1) =>
            \E p \in Producers : pc[p] = "r71" /\ ret'[p] = "true"
       /\ (SnState(s) = 1 /\ SnState(s)' = 2) =>
            \E p \in Producers : pc[p] = "c97" /\ pc'[p] # "c97"
       /\ (SnState(s) = 2 /\ SnState(s)' = 3) =>
            pc[Consumer] = "k116" /\ ret'[Consumer] = "true"]_vars

\* sequence number 0 is Consumed, 1 is Committed and 2 is Unreserved
C16_Witness == SnState(0) = 3 /\ SnState(1) = 2 /\ SnState(2) = 0

\* the steps a Commit call of p can still take, at most: each step of p
\* inside Commit lowers it
CommitRank(p) ==
  CASE pc[p] = "c87" -> (count[p] - i[p]) + 2 * queue_capacity_ + 2
    [] pc[p] = "c89" -> 2 * queue_capacity_ + 2
    [] pc[p] = "c90" -> 2 * queue_capacity_ + 1
    [] pc[p] = "c95" -> 2 * (reserve_sn[p] - commit_sn[p])
    [] pc[p] = "c97" -> 2 * (reserve_sn[p] - commit_sn[p]) - 1
    [] OTHER -> 0

\* p takes a step inside Commit
CommitStepOf(p) ==
  /\ InCommit(p)
  /\ pc'[p] # pc[p] \/ i'[p] # i[p] \/ commit_sn'[p] # commit_sn[p]

\* what C17 says of Commit: a sweep has between 1 and capacity iterations
\* left, bounded by the reserve_sn it loaded; every step of a Commit call
\* lowers CommitRank and no step of another thread raises it, so the call
\* ends whatever the other threads do
CommitIsBounded ==
  /\ [](\A p \in Producers : pc[p] \in {"c95", "c97"} =>
          /\ reserve_sn[p] - commit_sn[p] >= 1
          /\ reserve_sn[p] - commit_sn[p] <= queue_capacity_)
  /\ [][\A p \in Producers :
          /\ CommitStepOf(p) => CommitRank(p)' < CommitRank(p)
          /\ InCommit(p) => CommitRank(p)' <= CommitRank(p)]_vars

\* C17 (as stated): Commit is bounded; Reserve goes round its loop again only
\* if reserve_sn_ has moved between its load and its exchange; Consume never
\* goes round its loop again.
C17_OneIterationSuffices ==
  /\ CommitIsBounded
  /\ [][\A p \in Producers :
          (pc[p] = "r71" /\ pc'[p] = "r64") => reserve_sn_ # reserve_sn[p]]_vars
  /\ [][~(pc[Consumer] = "k116" /\ pc'[Consumer] = "k107")]_vars

\* C17 (amended): Commit is bounded; Reserve goes round its loop again only
\* if reserve_sn_ has moved between its load and its exchange or
\* compare_exchange_weak has failed spuriously; at the exchange of Consume
\* consume_sn_ still is the value loaded, so that Consume goes round its loop
\* again only if compare_exchange_weak has failed spuriously.
C17_BoundedWork ==
  /\ CommitIsBounded
  /\ [](pc[Consumer] = "k116" => consume_sn_ = consume_sn[Consumer])
  /\ [][\A p \in Producers :
          (pc[p] = "r71" /\ pc'[p] = "r64") =>
             reserve_sn_ # reserve_sn[p] \/ ReserveCasSpurious(p)]_vars
  /\ [][(pc[Consumer] = "k116" /\ pc'[Consumer] = "k107") =>
             ConsumeCasSpurious]_vars

\* a sweep with capacity iterations ahead on a buffer of two slots
C17_Witness ==
  /\ queue_capacity_ = 2
  /\ \E p \in Producers :
       pc[p] = "c95" /\ reserve_sn[p] - commit_sn[p] = queue_capacity_

\* C18: every marker holds -1, or the value it got at construction, or a
\* sequence number s of its index with commit_sn_ <= s < reserve_sn_ whose
\* marker store has run; a construction value is no sequence number of its
\* index; and the marker store of line 87 never replaces a sequence number
\* the sweep has not reset yet.
C18_MarkerInvariant ==
  /\ [](\A x \in DOMAIN commits_ :
          \/ commits_[x] = -1
          \/ /\ commits_[x] = InitialCommits(queue_capacity_exp_)[x]
             /\ Index(commits_[x]) # x
          \/ /\ Index(commits_[x]) = x
             /\ commit_sn_ <= commits_[x]
             /\ commits_[x] < reserve_sn_
             /\ commits_[x] \in marked)
  /\ [][\A p \in Producers :
          (pc[p] = "c87" /\ (pc'[p] # pc[p] \/ i'[p] # i[p])) =>
             LET x == Index(i[p] + sequence_number[p]) IN
               \/ commits_[x] = -1
               \/ /\ commits_[x] = InitialCommits(queue_capacity_exp_)[x]
                  /\ Index(commits_[x]) # x]_vars

\* on a buffer of one slot the marker holds sequence number 1, stored over
\* the marker the sweep had reset for sequence number 0
C18_Witness == queue_capacity_ = 1 /\ commits_[0] = 1 /\ commit_sn_ = 1

\* C19: reserve_sn_ is changed only by the successful exchange of a Reserve,
\* which changes nothing else of the buffer; consume_sn_ only by the
\* successful exchange of Consume, by one; no step of Consume changes
\* reserve_sn_, commit_sn_, a marker or a slot; markers and commit_sn_ are
\* changed only by steps of Commit, which change neither reserve_sn_ nor
\* consume_sn_ nor a slot.
C19_OperationFrames ==
  [][/\ reserve_sn_' # reserve_sn_ =>
          \E p \in Producers : pc[p] = "r71" /\ ret'[p] = "true"
     /\ \A p \in Producers : (pc[p] = "r71" /\ ret'[p] = "true") =>
          UNCHANGED <<commit_sn_, consume_sn_, commits_, queue_, event>>
     /\ consume_sn_' # consume_sn_ =>
          /\ pc[Consumer] = "k116" /\ ret'[Consumer] = "true"
          /\ consume_sn_' = consume_sn_ + 1
     /\ pc'[Consumer] # pc[Consumer] =>
          UNCHANGED <<reserve_sn_, commit_sn_, commits_, queue_>>
     /\ (commits_' # commits_ \/ commit_sn_' # commit_sn_) =>
          \E p \in Producers : CommitStepOf(p)
     /\ \A p \in Producers : CommitStepOf(p) =>
          UNCHANGED <<reserve_sn_, consume_sn_, queue_, event>>]_vars

\* each of the three operations has succeeded at least once
C19_Witness ==
  /\ reserve_sn_ = 2 /\ commit_sn_ = 2 /\ consume_sn_ = 1
  /\ ret[Consumer] = "true"

\* C20: whenever the consumer is about to read the slot of a sequence number
\* (line 114), the write of that slot happens before the read: the consumer
\* has learnt of it through the acquire load of commit_sn_ (line 107) from a
\* release store of commit_sn_ made by a thread that the write happened
\* before.
C20_VisibilityChain ==
  pc[Consumer] = "k114" => consume_sn[Consumer] \in hb[Consumer]

====
